---- MODULE Spec2Model ----
(***************************************************************************)
(* numcodecs-replace: the ReplaceFilterCodec value-replacement filter and  *)
(* the Replacement statistics, modelled from                               *)
(* src/src/numcodecs_replace/__init__.py.                                  *)
(*                                                                         *)
(* Scalars.  An array element or a Python scalar is a record               *)
(*   [cls |-> "num", v |-> n]   a finite number                            *)
(*   [cls |-> "inf", v |-> s]   an infinity of sign s (1 or -1)            *)
(*   [cls |-> "nan", v |-> p]   a NaN with sign/payload bits p             *)
(* Two records are equal exactly when the two scalars are bit-identical.   *)
(* A finite element of a floating array holds its value times Unit(dt), so *)
(* that the mean of up to MaxLen whole numbers is exact; an integer array  *)
(* (int8) holds the value itself.  The arrays hold small whole numbers,    *)
(* whose sums are exact in double precision; the rounding of a quotient to *)
(* the nearest double and negative zero are not modelled.                  *)
(***************************************************************************)
EXTENDS Integers, Sequences, FiniteSets, TLC

\* The longest array the model encodes.
MaxLen == 3

\* np.iinfo(np.int8).max and .min (line 65, integer branch).
IntInfoMax == 127
IntInfoMin == -128
\* Stands for np.finfo(x.dtype).max (line 65, floating branch): a finite
\* element above every other finite element of the model.
FloatInfoMax == 1000000

Num(n) == [cls |-> "num", v |-> n]
PosInf == [cls |-> "inf", v |-> 1]
NegInf == [cls |-> "inf", v |-> -1]
\* float("nan") / np.nan, and the NaN a 0/0 or inf-inf produces.
NaN == [cls |-> "nan", v |-> 0]
\* -np.nan: a NaN with another bit pattern.
NegNaN == [cls |-> "nan", v |-> 1]

\* np.isnan, np.isfinite
IsNaN(x) == x.cls = "nan"
IsFinite(x) == x.cls = "num"

DTypes == {"float64", "int8"}
\* np.issubdtype(x.dtype, np.floating)
IsFloating(dt) == dt = "float64"

RECURSIVE Factorial(_)
Factorial(n) == IF n <= 1 THEN 1 ELSE n * Factorial(n - 1)

\* What a finite element of a dt array holds for the value 1.
Unit(dt) == IF IsFloating(dt) THEN Factorial(MaxLen) ELSE 1

\* info.max and info.min of line 65, as array elements.
InfoMax(dt) == IF IsFloating(dt) THEN Num(FloatInfoMax) ELSE Num(IntInfoMax)
InfoMin(dt) == IF IsFloating(dt) THEN Num(-FloatInfoMax) ELSE Num(IntInfoMin)

\* x <= y on two scalars that are not NaN.
Leq(x, y) ==
    IF x.cls = "inf" THEN x.v = -1 \/ y = PosInf
    ELSE IF y.cls = "inf" THEN y.v = 1
    ELSE x.v <= y.v

\* np.minimum / np.maximum on two scalars that are not NaN (np.amin and
\* np.amax reduce with them; the where mask keeps NaN out).
Minimum(x, y) == IF Leq(x, y) THEN x ELSE y
Maximum(x, y) == IF Leq(x, y) THEN y ELSE x
\* np.minimum on any two scalars: a NaN operand gives NaN.
Fmin_Propagating(x, y) == IF IsNaN(x) \/ IsNaN(y) THEN NaN ELSE Minimum(x, y)
\* np.fmin / np.fmax: a NaN operand is ignored.
Fmin(x, y) == IF IsNaN(y) THEN x ELSE IF IsNaN(x) THEN y ELSE Minimum(x, y)
Fmax(x, y) == IF IsNaN(y) THEN x ELSE IF IsNaN(x) THEN y ELSE Maximum(x, y)

\* np.amin(x, initial=initial, where=np.isfinite(x)): a reduction that starts
\* at initial and takes in the elements the mask selects.
RECURSIVE AminFinite(_, _, _)
AminFinite(x, initial, i) ==
    IF i > Len(x) THEN initial
    ELSE AminFinite(x, IF IsFinite(x[i]) THEN Minimum(initial, x[i]) ELSE initial, i + 1)

RECURSIVE AmaxFinite(_, _, _)
AmaxFinite(x, initial, i) ==
    IF i > Len(x) THEN initial
    ELSE AmaxFinite(x, IF IsFinite(x[i]) THEN Maximum(initial, x[i]) ELSE initial, i + 1)

\* np.nanmin(x, initial=initial) / np.nanmax: np.fmin.reduce / np.fmax.reduce.
RECURSIVE NanMin(_, _, _)
NanMin(x, initial, i) ==
    IF i > Len(x) THEN initial ELSE NanMin(x, Fmin(initial, x[i]), i + 1)

RECURSIVE NanMax(_, _, _)
NanMax(x, initial, i) ==
    IF i > Len(x) THEN initial ELSE NanMax(x, Fmax(initial, x[i]), i + 1)

\* Floating addition of two scalars.
Add(x, y) ==
    IF IsNaN(x) \/ IsNaN(y) THEN NaN
    ELSE IF x.cls = "inf" THEN (IF y.cls = "inf" /\ y.v # x.v THEN NaN ELSE x)
    ELSE IF y.cls = "inf" THEN y
    ELSE Num(x.v + y.v)

\* The masks np.isfinite(x) and ~np.isnan(x).
FiniteMask(x) == [j \in DOMAIN x |-> IsFinite(x[j])]
NotNaNMask(x) == [j \in DOMAIN x |-> ~IsNaN(x[j])]

\* The sum and the count of the elements of x the mask selects.
RECURSIVE SumWhere(_, _, _)
SumWhere(x, where, i) ==
    IF i > Len(x) THEN Num(0)
    ELSE IF where[i] THEN Add(x[i], SumWhere(x, where, i + 1))
    ELSE SumWhere(x, where, i + 1)

CountWhere(where) == Cardinality({i \in DOMAIN where : where[i]})

\* Integer division rounding toward zero, as the cast of a double to an
\* integer type does.
TruncDiv(s, c) == IF s >= 0 THEN s \div c ELSE -((-s) \div c)

\* total / count in double precision, then .astype(x.dtype): exact for a
\* floating array (the elements are multiples of Unit), truncated toward zero
\* for an integer array.  A count of 0 gives NaN (0/0), whose cast to an
\* integer type is undefined: nanAsInt is what the build makes of it.
MeanAsType(dt, total, count, nanAsInt) ==
    LET mean == IF count = 0 \/ IsNaN(total) THEN NaN
                ELSE IF total.cls = "inf" THEN total
                ELSE IF IsFloating(dt) THEN Num(total.v \div count)
                ELSE Num(TruncDiv(total.v, count))
    IN IF IsFloating(dt) \/ IsFinite(mean) THEN mean ELSE Num(nanAsInt)

Kinds == {"finite_min", "finite_mean", "finite_max", "nan_min", "nan_mean", "nan_max"}

\* Replacement.compute(self, x), self = kind.
Compute(kind, dt, x, nanAsInt) ==
    CASE kind = "finite_min" -> AminFinite(x, InfoMax(dt), 1)
      [] kind = "finite_mean" ->
            MeanAsType(dt, SumWhere(x, FiniteMask(x), 1), CountWhere(FiniteMask(x)), nanAsInt)
      [] kind = "finite_max" -> AmaxFinite(x, InfoMin(dt), 1)
      [] kind = "nan_min" -> NanMin(x, IF IsFloating(dt) THEN PosInf ELSE InfoMax(dt), 1)
      [] kind = "nan_mean" ->
            MeanAsType(dt, SumWhere(x, NotNaNMask(x), 1), CountWhere(NotNaNMask(x)), nanAsInt)
      [] kind = "nan_max" -> NanMax(x, IF IsFloating(dt) THEN NegInf ELSE InfoMin(dt), 1)

(***************************************************************************)
(* Configurations.  A replacement value is a literal Python number, the    *)
(* textual name of a statistic, or a member of the Replacement enum.  A    *)
(* rule is [k |-> match-key, v |-> value]; a dict is the sequence of its   *)
(* items in insertion order, the keys distinct.  The finite keys and       *)
(* literals of the model are Python ints.                                  *)
(***************************************************************************)
Lit(x) == [t |-> "lit", s |-> "", x |-> x]
Str(s) == [t |-> "str", s |-> s, x |-> Num(0)]
Member(m) == [t |-> "enum", s |-> m, x |-> Num(0)]
Rule(k, v) == [k |-> k, v |-> v]

\* isinstance(v, str), isinstance(v, Replacement)
IsStr(v) == v.t = "str"
IsReplacement(v) == v.t = "enum"

\* Replacement[v]: the member of that name; a KeyError for any other string.
ReplacementGetItem(name) ==
    IF name \in Kinds THEN [ok |-> TRUE, v |-> Member(name)]
    ELSE [ok |-> FALSE, v |-> Str(name)]

\* str(v) of a member of the plain Enum Replacement: Enum.__str__ gives the
\* class name, a dot and the member name.
EnumStr(m) == "Replacement." \o m

\* ReplaceFilterCodec.__init__(replacements=given): the normalized dict, or
\* the KeyError of the first name that is no member.
Construct(given) ==
    IF \E i \in DOMAIN given : IsStr(given[i].v) /\ ~ReplacementGetItem(given[i].v.s).ok
    THEN [ok |-> FALSE, replacements |-> <<>>]
    ELSE [ok |-> TRUE,
          replacements |->
              [i \in DOMAIN given |->
                  Rule(given[i].k,
                       IF IsStr(given[i].v) THEN ReplacementGetItem(given[i].v.s).v
                       ELSE given[i].v)]]

\* ReplaceFilterCodec.get_config()["replacements"]
GetConfigReplacements(repl) ==
    [i \in DOMAIN repl |->
        Rule(repl[i].k, IF IsReplacement(repl[i].v) THEN Str(EnumStr(repl[i].v.s)) ELSE repl[i].v)]

(***************************************************************************)
(* Arrays.  An array is the sequence of its elements in C order.           *)
(***************************************************************************)
Whole == {-1, 0, 1, 24}
Elems(dt) ==
    IF IsFloating(dt)
    THEN {NegInf, PosInf, NaN, NegNaN} \cup {Num(n * Unit(dt)) : n \in Whole}
    ELSE {Num(n) : n \in Whole}
Arrays(dt) == UNION {[1..n -> Elems(dt)] : n \in 0..MaxLen}

\* A Python number stored into a dt array (finite numbers only for int8).
ToDtype(dt, p) == IF p.cls = "num" THEN Num(p.v * Unit(dt)) ELSE p

\* The mask with the NaN key compared by bit pattern.
Mask_BitPattern(dt, k, e) ==
    IF k.cls = "num" THEN e.cls = "num" /\ e.v = k.v * Unit(dt) ELSE e = k
\* The mask with a == k for every key: NaN == NaN is false.
Mask_NanEquality(dt, k, e) ==
    IF k.cls = "num" THEN e.cls = "num" /\ e.v = k.v * Unit(dt) ELSE ~IsNaN(k) /\ e = k

\* One element of the mask of line 156-159 for the key k: a == k when k is an
\* int or is not NaN, np.isnan(a) otherwise.
Mask(dt, k, e) ==
    IF k.cls = "num" \/ ~IsNaN(k)
    THEN IF k.cls = "num" THEN e.cls = "num" /\ e.v = k.v * Unit(dt) ELSE e = k
    ELSE IsNaN(e)

\* a[...] = v as soon as one element matches.
SetWhere_Fill(dt, data, k, val) ==
    IF \E j \in DOMAIN data : Mask(dt, k, data[j])
    THEN [j \in DOMAIN data |-> val]
    ELSE data

\* a[mask] = v
SetWhere(dt, data, k, val) ==
    [j \in DOMAIN data |-> IF Mask(dt, k, data[j]) THEN val ELSE data[j]]

\* numcodecs.compat.ensure_ndarray(buf): a view of the caller's buffer.
EnsureNdarray(b) == [data |-> b, view |-> TRUE]
\* No copy: the array stays a view of the caller's buffer.
NpCopy_View(x) == x
\* np.copy(x): a new array that shares no memory.
NpCopy(x) == [data |-> x.data, view |-> FALSE]
\* numcodecs.compat.ndarray_copy(buf, out): the elements of buf, in out when
\* one is given, in a new array otherwise.
NdarrayCopy(src, out) == src

(***************************************************************************)
(* The configurations the encoder is run with.                             *)
(***************************************************************************)
\* tests/test_replace.py, check_roundtrip
TestReplacements ==
    << Rule(NegInf, Str("finite_min")), Rule(Num(0), Str("finite_mean")),
       Rule(PosInf, Str("finite_max")), Rule(Num(-1), Str("nan_min")),
       Rule(NaN, Str("nan_mean")), Rule(Num(1), Str("nan_max")),
       Rule(Num(24), Lit(Num(42))) >>
\* 24 -> 42 then 42 -> 0, and the other way round
OrderA == << Rule(Num(24), Lit(Num(42))), Rule(Num(42), Lit(Num(0))) >>
OrderB == << Rule(Num(42), Lit(Num(0))), Rule(Num(24), Lit(Num(42))) >>

\* Every configuration of at most two of these rules, in both orders, and
\* the configuration of the tests.
RulePool ==
    {r \in {TestReplacements[i] : i \in DOMAIN TestReplacements} :
        r.k \in {Num(0), PosInf, NaN, Num(1), Num(24)}} \cup {OrderA[2]}
EncodeConfigs ==
    {<<>>, TestReplacements}
      \cup {<<r>> : r \in RulePool}
      \cup {<<r[1], r[2]>> : r \in {q \in RulePool \X RulePool : q[1].k # q[2].k}}

VARIABLES
    dtype,          \* the element type of the caller's array
    buf,            \* the caller's array, the argument of encode
    nanAsInt,       \* what this build's cast of NaN to int8 gives
    decl,           \* the replacements argument the codec was built from
    replacements,   \* self._replacements
    pc,             \* where the caller is
    a,              \* encode's local a: [data, view]
    resolved,       \* encode's local replacements
    idx,            \* the position of the for loop of line 155
    enc,            \* what encode returned
    dec,            \* what decode returned
    first,          \* what the caller's first encode call returned, kept by
                    \* the caller once it calls encode again
    config,         \* get_config()["replacements"]
    rebuilt,        \* the codec built from config
    stat            \* the last Replacement.compute result

vars == <<dtype, buf, nanAsInt, decl, replacements, pc, a, resolved, idx, enc, dec,
          first, config, rebuilt, stat>>

NoStat == [kind |-> "", value |-> Num(0)]
NoCodec == [ok |-> FALSE, replacements |-> <<>>]
Idle == /\ a = EnsureNdarray(<<>>) /\ resolved = <<>> /\ idx = 0
        /\ enc = <<>> /\ dec = <<>> /\ first = [set |-> FALSE, data |-> <<>>]
        /\ config = <<>> /\ rebuilt = NoCodec /\ stat = NoStat

\* A constructed codec and an array the caller holds.
Init ==
    /\ dtype \in DTypes
    /\ buf \in Arrays(dtype)
    /\ nanAsInt \in IF IsFloating(dtype) THEN {0} ELSE {0, IntInfoMin}
    /\ decl \in EncodeConfigs
    /\ replacements = Construct(decl).replacements
    /\ pc = "ready"
    /\ Idle

\* encode, line 148
EncodeCopy ==
    /\ pc \in {"ready", "encoded", "decoded"}
    /\ a' = NpCopy(EnsureNdarray(buf))
    /\ resolved' = <<>> /\ idx' = 0 /\ enc' = <<>> /\ dec' = <<>>
    /\ first' = IF pc = "ready" \/ first.set THEN first ELSE [set |-> TRUE, data |-> enc]
    /\ pc' = "resolve"
    /\ UNCHANGED <<dtype, buf, nanAsInt, decl, replacements, config, rebuilt, stat>>

\* encode, lines 150-153
Resolve(repl, dt, x, n) ==
    [i \in DOMAIN repl |->
        Rule(repl[i].k,
             IF IsReplacement(repl[i].v) THEN Compute(repl[i].v.s, dt, x, n)
             ELSE ToDtype(dt, repl[i].v.x))]

EncodeResolve ==
    /\ pc = "resolve"
    /\ resolved' = Resolve(replacements, dtype, a.data, nanAsInt)
    /\ idx' = 1
    /\ pc' = "apply"
    /\ UNCHANGED <<dtype, buf, nanAsInt, decl, replacements, a, enc, dec, first, config,
                   rebuilt, stat>>

\* The loop with each statistic computed when its rule is reached, from the
\* working copy.
EncodeApply_Lazy ==
    /\ pc = "apply"
    /\ idx <= Len(resolved)
    /\ LET val == IF IsReplacement(replacements[idx].v)
                  THEN Compute(replacements[idx].v.s, dtype, a.data, nanAsInt)
                  ELSE resolved[idx].v
           data == SetWhere(dtype, a.data, resolved[idx].k, val)
       IN /\ a' = [a EXCEPT !.data = data]
          /\ buf' = IF a.view THEN data ELSE buf
    /\ idx' = idx + 1
    /\ UNCHANGED <<dtype, nanAsInt, decl, replacements, pc, resolved, enc, dec, first,
                   config, rebuilt, stat>>

\* The loop with every mask taken from the input instead of the working copy.
EncodeApply_MatchInput ==
    /\ pc = "apply"
    /\ idx <= Len(resolved)
    /\ LET data == [j \in DOMAIN a.data |->
                       IF Mask(dtype, resolved[idx].k, buf[j]) THEN resolved[idx].v
                       ELSE a.data[j]]
       IN /\ a' = [a EXCEPT !.data = data]
          /\ buf' = IF a.view THEN data ELSE buf
    /\ idx' = idx + 1
    /\ UNCHANGED <<dtype, nanAsInt, decl, replacements, pc, resolved, enc, dec, first,
                   config, rebuilt, stat>>

\* encode, lines 155-159: one turn of the loop
EncodeApply ==
    /\ pc = "apply"
    /\ idx <= Len(resolved)
    /\ LET data == SetWhere(dtype, a.data, resolved[idx].k, resolved[idx].v)
       IN /\ a' = [a EXCEPT !.data = data]
          /\ buf' = IF a.view THEN data ELSE buf
    /\ idx' = idx + 1
    /\ UNCHANGED <<dtype, nanAsInt, decl, replacements, pc, resolved, enc, dec, first,
                   config, rebuilt, stat>>

\* encode, line 161
EncodeReturn ==
    /\ pc = "apply"
    /\ idx > Len(resolved)
    /\ enc' = a.data
    /\ pc' = "encoded"
    /\ UNCHANGED <<dtype, buf, nanAsInt, decl, replacements, a, resolved, idx, dec,
                   first, config, rebuilt, stat>>

\* The rules rs, from the i-th on, applied to data one after another.
RECURSIVE ApplyAll(_, _, _, _)
ApplyAll(dt, data, rs, i) ==
    IF i > Len(rs) THEN data
    ELSE ApplyAll(dt, [j \in DOMAIN data |->
                          IF (IF IsNaN(rs[i].k) THEN IsNaN(data[j])
                              ELSE data[j] = ToDtype(dt, rs[i].k))
                          THEN rs[i].v ELSE data[j]], rs, i + 1)

\* A decode that substitutes again, as encode does.
DecodeResult_Substitute(src, out) == ApplyAll(dtype, src, resolved, 1)

\* decode(buf, out), line 183
DecodeResult(src, out) == NdarrayCopy(src, out)

\* decode on what encode returned, without out or with an out of that size
Decode ==
    /\ pc = "encoded"
    /\ \E out \in {<<>>, [j \in DOMAIN enc |-> Num(0)]} : dec' = DecodeResult(enc, out)
    /\ pc' = "decoded"
    /\ UNCHANGED <<dtype, buf, nanAsInt, decl, replacements, a, resolved, idx, enc,
                   first, config, rebuilt, stat>>

Next == EncodeCopy \/ EncodeResolve \/ EncodeApply \/ EncodeReturn \/ Decode

Spec == Init /\ [][Next]_vars

(***************************************************************************)
(* Configuration export: a codec is built from a declarative dict, its     *)
(* configuration is exported, and a codec is built from the export         *)
(* (numcodecs.registry.get_codec calls the constructor with it).           *)
(***************************************************************************)
MaxRules == 2

ConfigKeys == {NegInf, PosInf, NaN, Num(-1), Num(0), Num(1), Num(24), Num(42)}
ConfigValues ==
    {Str(m) : m \in Kinds} \cup {Member(m) : m \in Kinds}
      \cup {Lit(Num(0)), Lit(Num(42)), Str("mean")}
Dicts ==
    {d \in UNION {[1..n -> [k : ConfigKeys, v : ConfigValues]] : n \in 0..MaxRules} :
        \A i, j \in DOMAIN d : i # j => d[i].k # d[j].k}

InitConfig ==
    /\ dtype = "float64" /\ buf = <<>> /\ nanAsInt = 0
    /\ decl \in Dicts
    /\ replacements = <<>>
    /\ pc = "new"
    /\ Idle

\* ReplaceFilterCodec(replacements=decl)
New ==
    /\ pc = "new"
    /\ LET c == Construct(decl)
       IN /\ replacements' = c.replacements
          /\ pc' = IF c.ok THEN "built" ELSE "KeyError"
    /\ UNCHANGED <<dtype, buf, nanAsInt, decl, a, resolved, idx, enc, dec, first, config,
                   rebuilt, stat>>

\* codec.get_config()
GetConfig ==
    /\ pc = "built"
    /\ config' = GetConfigReplacements(replacements)
    /\ pc' = "exported"
    /\ UNCHANGED <<dtype, buf, nanAsInt, decl, replacements, a, resolved, idx, enc, dec,
                   first, rebuilt, stat>>

\* numcodecs.registry.get_codec(config): ReplaceFilterCodec(replacements=config[...])
FromConfig ==
    /\ pc = "exported"
    /\ rebuilt' = Construct(config)
    /\ pc' = "rebuilt"
    /\ UNCHANGED <<dtype, buf, nanAsInt, decl, replacements, a, resolved, idx, enc, dec,
                   first, config, stat>>

NextConfig == New \/ GetConfig \/ FromConfig

SpecConfig == InitConfig /\ [][NextConfig]_vars

(***************************************************************************)
(* Replacement.compute on its own.                                         *)
(***************************************************************************)
InitCompute ==
    /\ dtype \in DTypes
    /\ buf \in Arrays(dtype)
    /\ nanAsInt \in IF IsFloating(dtype) THEN {0} ELSE {0, IntInfoMin}
    /\ decl = <<>> /\ replacements = <<>>
    /\ pc = "compute"
    /\ Idle

ComputeStat ==
    /\ pc = "compute"
    /\ \E kind \in Kinds :
          stat' = [kind |-> kind, value |-> Compute(kind, dtype, buf, nanAsInt)]
    /\ UNCHANGED <<dtype, buf, nanAsInt, decl, replacements, pc, a, resolved, idx, enc,
                   dec, first, config, rebuilt>>

NextCompute == ComputeStat

SpecCompute == InitCompute /\ [][NextCompute]_vars

(***************************************************************************)
(* Properties.                                                             *)
(***************************************************************************)
Canonical(v) == (v.t = "lit") \/ (IsStr(v) /\ v.s \in Kinds)

\* C1: building a codec from the exported configuration succeeds and gives the
\* same keys in the same order, each statistic entry the same Replacement
\* member and each literal unchanged.
C1_ExportRebuilds ==
    pc = "rebuilt" => rebuilt.ok /\ rebuilt.replacements = replacements

\* C2: for a declarative dict of literals and canonical statistic names, the
\* exported replacements equal the dict: same keys, same order, each statistic
\* as its canonical name.
C2_ExportIsDeclarative ==
    (pc = "exported" /\ \A i \in DOMAIN decl : Canonical(decl[i].v)) => config = decl

FiniteOf(x) == {x[i] : i \in {j \in DOMAIN x : IsFinite(x[j])}}
NonNaNOf(x) == {x[i] : i \in {j \in DOMAIN x : ~IsNaN(x[j])}}
Least(S) == CHOOSE m \in S : \A y \in S : Leq(m, y)
Greatest(S) == CHOOSE m \in S : \A y \in S : Leq(y, m)

\* C6: compute returns, for every array (empty, all-NaN and all-infinite ones
\* included): finite_min = the least finite element, or info.max without one;
\* finite_max = the greatest finite element, or info.min; nan_min = the least
\* element that is not NaN, or +inf (floating) / info.max (integer);
\* nan_max = the greatest element that is not NaN, or -inf / info.min.
C6_MinMaxValues ==
    LET F == FiniteOf(buf)
        N == NonNaNOf(buf)
    IN /\ stat.kind = "finite_min" =>
              stat.value = IF F = {} THEN InfoMax(dtype) ELSE Least(F)
       /\ stat.kind = "finite_max" =>
              stat.value = IF F = {} THEN InfoMin(dtype) ELSE Greatest(F)
       /\ stat.kind = "nan_min" =>
              stat.value = IF N # {} THEN Least(N)
                           ELSE IF IsFloating(dtype) THEN PosInf ELSE InfoMax(dtype)
       /\ stat.kind = "nan_max" =>
              stat.value = IF N # {} THEN Greatest(N)
                           ELSE IF IsFloating(dtype) THEN NegInf ELSE InfoMin(dtype)

\* nan_min of an array of NaNs and one number is that number.
C6_Witness ==
    /\ stat.kind = "nan_min"
    /\ Len(buf) > 1
    /\ IsNaN(buf[1])
    /\ Cardinality(NonNaNOf(buf)) = 1
    /\ stat.value \in NonNaNOf(buf)

\* An element e equals the match-key k, or is NaN when k is NaN.
KeyMatches(k, e) == IF IsNaN(k) THEN IsNaN(e) ELSE e = ToDtype(dtype, k)
\* Rule i's replacement resolved on the caller's input.
Expected(i) ==
    IF IsReplacement(replacements[i].v)
    THEN Compute(replacements[i].v.s, dtype, buf, nanAsInt)
    ELSE ToDtype(dtype, replacements[i].v.x)
ExpectedRules == [i \in DOMAIN replacements |-> Rule(replacements[i].k, Expected(i))]

\* C3: the value every statistic-valued rule writes is the statistic of the
\* unmodified input, whatever its position and whatever earlier rules have
\* rewritten in the working copy.
C3_StatisticsOfInput ==
    [][pc = "apply" =>
         /\ \A i \in DOMAIN resolved :
               IsReplacement(replacements[i].v) => resolved[i].v = Expected(i)
         /\ (idx <= Len(resolved) /\ IsReplacement(replacements[idx].v)) =>
               \A j \in DOMAIN a.data :
                   KeyMatches(replacements[idx].k, a.data[j]) => a'.data[j] = Expected(idx)]_vars

\* The loop is about to write a statistic that earlier rewrites have changed
\* in the working copy.
C3_Witness ==
    /\ pc = "apply" /\ idx > 1 /\ idx <= Len(resolved)
    /\ IsReplacement(replacements[idx].v)
    /\ Compute(replacements[idx].v.s, dtype, a.data, nanAsInt) # Expected(idx)
    /\ \E j \in DOMAIN a.data : KeyMatches(replacements[idx].k, a.data[j])

\* C4: the rules are applied one after another, each on the working copy the
\* earlier ones left: 24 -> 42 then 42 -> 0 turns [24] into [0], 42 -> 0 then
\* 24 -> 42 turns it into [42], and the result is the left-to-right fold.
C4_SequentialOrder ==
    pc = "encoded" =>
        /\ enc = ApplyAll(dtype, buf, ExpectedRules, 1)
        /\ (decl = OrderA /\ buf = <<ToDtype(dtype, Num(24))>>) => enc = <<ToDtype(dtype, Num(0))>>
        /\ (decl = OrderB /\ buf = <<ToDtype(dtype, Num(24))>>) => enc = <<ToDtype(dtype, Num(42))>>

C4_Witness ==
    /\ pc = "encoded" /\ decl = OrderA
    /\ buf = <<ToDtype(dtype, Num(24))>> /\ enc = <<ToDtype(dtype, Num(0))>>

\* C5: a rule whose key is NaN overwrites every element of the working copy
\* that is NaN, whatever its bits, and changes no other element.
C5_NaNByClass ==
    [][(pc = "apply" /\ idx <= Len(resolved) /\ IsNaN(resolved[idx].k)) =>
         \A j \in DOMAIN a.data :
             a'.data[j] = IF IsNaN(a.data[j]) THEN resolved[idx].v ELSE a.data[j]]_vars

\* A NaN rule has just replaced NaNs of two bit patterns by a number and kept
\* an element that holds another number.
C5_Witness ==
    /\ pc = "apply" /\ idx > 1 /\ IsNaN(resolved[idx - 1].k)
    /\ \E j1, j2, j3 \in DOMAIN buf :
          /\ buf[j1] = NaN /\ buf[j2] = NegNaN
          /\ a.data[j1] = resolved[idx - 1].v /\ a.data[j2] = resolved[idx - 1].v
          /\ IsFinite(a.data[j1]) /\ IsFinite(a.data[j3])
          /\ a.data[j3] # resolved[idx - 1].v

\* What the rules after the i-th make of an element holding v.
RECURSIVE Chase(_, _)
Chase(v, i) ==
    IF i >= Len(replacements) THEN v
    ELSE Chase(IF KeyMatches(replacements[i + 1].k, v) THEN Expected(i + 1) ELSE v, i + 1)

SameValue(x, y) == x = y \/ (IsNaN(x) /\ IsNaN(y))

\* C7, as claimed: with the configuration of the tests, every element of the
\* input that matches a rule's key holds, in the output, that rule's
\* replacement resolved on the input.
C7_MatchedHoldsReplacement ==
    (pc = "encoded" /\ decl = TestReplacements) =>
        \A j \in DOMAIN buf : \A i \in DOMAIN replacements :
            KeyMatches(replacements[i].k, buf[j]) => SameValue(enc[j], Expected(i))

\* C7, amended: it holds that replacement as rewritten by the rules that
\* follow, so the replacement itself when no later key matches it.
C7_MatchedHoldsChasedReplacement ==
    (pc = "encoded" /\ decl = TestReplacements) =>
        \A j \in DOMAIN buf : \A i \in DOMAIN replacements :
            KeyMatches(replacements[i].k, buf[j]) =>
                /\ enc[j] = Chase(Expected(i), i)
                /\ (\A l \in DOMAIN replacements :
                       l > i => ~KeyMatches(replacements[l].k, Expected(i)))
                     => enc[j] = Expected(i)

\* An infinity replaced by the finite maximum, which no later key matches,
\* beside a NaN replaced by the mean.
C7_Witness ==
    /\ pc = "encoded" /\ decl = TestReplacements
    /\ \E j, l \in DOMAIN buf :
          /\ buf[j] = PosInf /\ enc[j] = Expected(3) /\ enc[j] # PosInf
          /\ IsNaN(buf[l]) /\ enc[l] = Expected(5) /\ ~IsNaN(enc[l])

\* C8: decode returns its input bit for bit and substitutes nothing, also when
\* the input holds match-keys or replacement values.
C8_DecodeIsIdentity == pc = "decoded" => dec = enc

\* The decoded array still holds a match-key.
C8_Witness ==
    /\ pc = "decoded"
    /\ \E j \in DOMAIN enc : \E i \in DOMAIN replacements :
          /\ KeyMatches(replacements[i].k, enc[j])
          /\ resolved[i].v # enc[j]
          /\ dec[j] = enc[j]

\* C9: no call changes the caller's array or the codec's replacements, and
\* encoding the same input again returns what the first call returned.
C9_NoSideEffects ==
    [][/\ buf' = buf
       /\ replacements' = replacements
       /\ (pc' = "encoded" /\ first'.set) => enc' = first'.data]_vars

\* A later encode call has returned, having replaced something.
C9_Witness == pc = "encoded" /\ first.set /\ enc # buf /\ enc = first.data

\* C10: the output has the input's length, and every element of the input
\* that matches no rule's key keeps its value.
C10_UnmatchedKept ==
    pc = "encoded" =>
        /\ Len(enc) = Len(buf)
        /\ \A j \in DOMAIN buf :
              (\A i \in DOMAIN replacements : ~KeyMatches(replacements[i].k, buf[j]))
                  => enc[j] = buf[j]

\* An unmatched element kept beside a matched one that was replaced.
C10_Witness ==
    /\ pc = "encoded"
    /\ \E j, l \in DOMAIN buf :
          /\ \A i \in DOMAIN replacements : ~KeyMatches(replacements[i].k, buf[j])
          /\ enc[j] = buf[j]
          /\ enc[l] # buf[l]

====
